---- MODULE Spec2Model ----
(***************************************************************************)
(* CUPRA assistant: the RAG pipeline (retrieval -> generation -> quality   *)
(* evaluation), the PostgreSQL/pgvector accessor it uses and the FastAPI   *)
(* host that constructs the pipeline at import time and serves requests.   *)
(*                                                                         *)
(* Texts are sequences of one-character strings so that strip(), int(),    *)
(* str() and ILIKE are computed rather than assumed.  Similarities are     *)
(* integers in hundredths.  A mean is kept as the pair <<sum, len>>.       *)
(***************************************************************************)
EXTENDS Integers, Sequences, FiniteSets, TLC

\* ---------------------------------------------------------------- bounds
MaxCorpus == 5        \* passages in the store: 0..MaxCorpus
MaxConns == 2         \* server-side connection limit (leaked connections count)
MaxQueryLen == 1      \* characters in a chat query
MaxReplyLen == 2      \* characters in the evaluator's reply
MaxTitleLen == 1      \* characters in a title search
MaxLimit == 2         \* largest limit of a title search

\* ------------------------------------------------------ program constants
TopK == 4             \* procesar_consulta_completa: paso_1_rag(query, top_k=4)
ScoreLo == 1          \* paso_3_quality_agent: 1 <= puntuacion
ScoreHi == 10         \* paso_3_quality_agent: puntuacion <= 10

NoLogger == "None"    \* logger=None default of the retriever methods
AppLogger == "logger" \* the logger app.py creates and passes to the pipeline

\* ------------------------------------------------------------- text helpers
Space == " "
IsSpace(c) == c = Space

RECURSIVE LStrip(_)
LStrip(s) == IF s = <<>> THEN <<>>
             ELSE IF IsSpace(Head(s)) THEN LStrip(Tail(s)) ELSE s

RECURSIVE RStrip(_)
RStrip(s) == IF s = <<>> THEN <<>>
             ELSE IF IsSpace(s[Len(s)]) THEN RStrip(SubSeq(s, 1, Len(s) - 1)) ELSE s

\* str.strip()
Strip(s) == RStrip(LStrip(s))

RECURSIVE SeqsUpTo(_, _)
SeqsUpTo(A, n) == IF n = 0 THEN {<<>>}
                  ELSE LET shorter == SeqsUpTo(A, n - 1)
                       IN shorter \cup {Append(s, a) : s \in shorter, a \in A}

RECURSIVE SumSeq(_)
SumSeq(s) == IF s = <<>> THEN 0 ELSE Head(s) + SumSeq(Tail(s))

\* dict.get(key, default)
DictGet(d, key, default) == IF key \in DOMAIN d THEN d[key] ELSE default

\* the empty dict {}
EmptyDict == <<>>

\* ------------------------------------------------------------- the corpus
\* cupra_chunks rows.  Row i exists when i <= corpus.  Embeddings are small
\* integer vectors, with components of either sign as a model's embeddings
\* have; titles are character sequences.
PassageEmbedding(i) ==
    CASE i % 4 = 1 -> <<1, 0>>
      [] i % 4 = 2 -> <<0, -1>>
      [] i % 4 = 3 -> <<0, 1>>
      [] OTHER     -> <<1, 2>>

PassageTitle(i) ==
    CASE i % 3 = 1 -> <<"A", "b">>
      [] i % 3 = 2 -> <<"b", "a">>
      [] OTHER     -> <<"a">>

Passage(i) == [id |-> i,
               titulo |-> PassageTitle(i),
               cont |-> <<"c">>,
               num |-> 10 * ((i * 3) % 4),
               subchunk |-> i % 3,
               embedding |-> PassageEmbedding(i),
               created_at |-> i]

\* ---------------------------------------------------- the store accessor
\* Every accessor opens its own connection.  `up` says whether connect()
\* succeeds; failAt = 0 means every statement succeeds, failAt = j > 0 means
\* the j-th statement executed on the connection raises.  Each accessor
\* yields [raised, value, leak]: leak = 1 when the connection was opened and
\* the accessor left without calling conn.close().

HealthDown(err) == [pgvector_instalado |-> FALSE,
                    tabla_existe |-> FALSE,
                    indice_vectorial |-> FALSE,
                    conexion_ok |-> FALSE,
                    error |-> err]

HealthProbes == 3

\* variant: the except branch reports conexion_ok = True
verificar_salud_bd_nogate(up, failAt, ext, tbl, idx) ==
    IF ~up THEN
        [raised |-> FALSE, leak |-> 0,
         value |-> [HealthDown("connect failed") EXCEPT !.conexion_ok = TRUE]]
    ELSE IF failAt \in 1..HealthProbes THEN
        [raised |-> FALSE, leak |-> 1,
         value |-> [HealthDown("query failed") EXCEPT !.conexion_ok = TRUE]]
    ELSE
        [raised |-> FALSE, leak |-> 0,
         value |-> [pgvector_instalado |-> ext,
                    tabla_existe |-> tbl,
                    indice_vectorial |-> idx,
                    conexion_ok |-> TRUE]]

verificar_salud_bd(up, failAt, ext, tbl, idx) ==
    IF ~up THEN
        \* _get_connection() raises: except branch, nothing was opened
        [raised |-> FALSE, leak |-> 0, value |-> HealthDown("connect failed")]
    ELSE IF failAt \in 1..HealthProbes THEN
        \* a probe raises after connecting: except branch, conn.close() skipped
        [raised |-> FALSE, leak |-> 1, value |-> HealthDown("query failed")]
    ELSE
        [raised |-> FALSE, leak |-> 0,
         value |-> [pgvector_instalado |-> ext,
                    tabla_existe |-> tbl,
                    indice_vectorial |-> idx,
                    conexion_ok |-> TRUE]]

StatQueries == 4

FullStats(n) == [total_chunks |-> n,
                 titulos_unicos |-> Cardinality({PassageTitle(i) : i \in 1..n}),
                 promedio_caracteres |->
                     IF n = 0 THEN "NULL"
                     ELSE <<SumSeq([i \in 1..n |-> Passage(i).num]), n>>,
                 ultimo_ingreso |-> IF n = 0 THEN "NULL" ELSE n]

obtener_estadisticas_bd(logger, up, failAt, n) ==
    IF up /\ failAt \notin 1..StatQueries THEN
        [raised |-> FALSE, leak |-> 0, value |-> FullStats(n)]
    ELSE
        \* except branch: logger.warning(...) is an attribute access on None
        \* when no logger was passed, and that raises out of the handler
        [raised |-> logger = NoLogger,
         leak |-> IF up THEN 1 ELSE 0,
         value |-> EmptyDict]

\* ------------------------------------------------------------ title search
Lower(c) == CASE c = "A" -> "a" [] c = "B" -> "b" [] OTHER -> c

\* PostgreSQL's LIKE on lower-cased operands (ILIKE): % matches any run of
\* characters, _ matches any one character
RECURSIVE LikeMatch(_, _)
LikeMatch(pat, text) ==
    IF pat = <<>> THEN text = <<>>
    ELSE IF Head(pat) = "%" THEN
        LikeMatch(Tail(pat), text) \/ (text # <<>> /\ LikeMatch(pat, Tail(text)))
    ELSE IF Head(pat) = "_" THEN
        text # <<>> /\ LikeMatch(Tail(pat), Tail(text))
    ELSE text # <<>> /\ Lower(Head(pat)) = Lower(Head(text))
                     /\ LikeMatch(Tail(pat), Tail(text))

\* WHERE title ILIKE pat ORDER BY char_count DESC LIMIT limit over n rows
TitleRows(pat, limit, n) ==
    LET hits == {i \in 1..n : LikeMatch(pat, PassageTitle(i))}
        m == IF limit < Cardinality(hits) THEN limit ELSE Cardinality(hits)
    IN {s \in [1..m -> hits] :
           /\ \A i, j \in 1..m : i < j => (s[i] # s[j] /\ Passage(s[i]).num >= Passage(s[j]).num)
           /\ \A o \in hits :
                  (\A i \in 1..m : s[i] # o) => \A i \in 1..m : Passage(s[i]).num >= Passage(o).num}

TitleChunk(i) ==
    [chunk_id |-> Passage(i).id,
     titulo |-> Passage(i).titulo,
     cont |-> Passage(i).cont,
     num |-> Passage(i).num,
     subchunk |-> Passage(i).subchunk,
     created_at |-> Passage(i).created_at]

\* the pattern buscar_por_titulo hands to ILIKE: f"%{titulo_busqueda}%"
TitlePattern(titulo_busqueda) == <<"%">> \o titulo_busqueda \o <<"%">>

buscar_por_titulo(titulo_busqueda, limit, up, failAt, rows) ==
    IF ~up THEN [raised |-> FALSE, leak |-> 0, value |-> <<>>]
    ELSE IF failAt = 1 THEN [raised |-> FALSE, leak |-> 1, value |-> <<>>]
    ELSE [raised |-> FALSE, leak |-> 0,
          value |-> [i \in 1..Len(rows) |-> TitleChunk(rows[i])]]

\* ------------------------------------------------------ embedding provider
QueryChars == {" ", "a", "b"}
Queries == SeqsUpTo(QueryChars, MaxQueryLen)

RECURSIVE CountChar(_, _)
CountChar(s, c) == IF s = <<>> THEN 0
                   ELSE (IF Head(s) = c THEN 1 ELSE 0) + CountChar(Tail(s), c)

\* client.embeddings.create(model, input): the external model, a fixed
\* function of the text it is given
Embed(text) == <<CountChar(text, "a"), CountChar(text, "b")>>

\* variant: the except branch hands back a placeholder vector
generar_embedding_query_placeholder(query, logger, embedOk) ==
    IF query = <<>> \/ Strip(query) = <<>> THEN
        [raised |-> FALSE, value |-> <<>>, called |-> FALSE]
    ELSE IF embedOk THEN
        [raised |-> FALSE, value |-> Embed(Strip(query)), called |-> TRUE]
    ELSE
        [raised |-> FALSE, value |-> <<1, 1>>, called |-> TRUE]

generar_embedding_query(query, logger, embedOk) ==
    IF query = <<>> \/ Strip(query) = <<>> THEN
        [raised |-> FALSE, value |-> <<>>, called |-> FALSE]
    ELSE IF embedOk THEN
        [raised |-> FALSE, value |-> Embed(Strip(query)), called |-> TRUE]
    ELSE
        \* except branch: logger.warning(...) with logger=None raises
        [raised |-> logger = NoLogger, value |-> <<>>, called |-> TRUE]

\* ------------------------------------------------- nearest-neighbour query
Scale == 100   \* similarities and distances are kept in hundredths

Dot(u, v) == u[1] * v[1] + u[2] * v[2]

\* cosine of the angle between u and v, in hundredths, rounded towards zero
Cosine(u, v) ==
    LET d == Dot(u, v)
        nn == Dot(u, u) * Dot(v, v)
        a == IF d < 0 THEN 0 - d ELSE d
        c == CHOOSE x \in 0..Scale :
                 /\ x * x * nn <= a * a * Scale * Scale
                 /\ (x + 1) * (x + 1) * nn > a * a * Scale * Scale
    IN IF d < 0 THEN 0 - c ELSE c

\* pgvector's <=> operator: cosine distance
CosDistance(u, v) == Scale - Cosine(u, v)

\* ORDER BY dist LIMIT m over the rows `rest`: the possible outputs, built
\* front to back.  The next row is one of those nearest among the rows not
\* yet output; rows at equal distance come in whatever order the scan
\* produces.
RECURSIVE OrderByLimit(_, _, _)
OrderByLimit(dist, rest, m) ==
    IF m = 0 \/ rest = {} THEN {<<>>}
    ELSE UNION {{<<i>> \o s : s \in OrderByLimit(dist, rest \ {i}, m - 1)} :
                   i \in {i \in rest : \A j \in rest : dist[i] <= dist[j]}}

\* ORDER BY embedding <=> q LIMIT k over the n stored rows
NearestRows(q, k, n) ==
    LET dist == [i \in 1..n |-> CosDistance(PassageEmbedding(i), q)]
    IN OrderByLimit(dist, 1..n, k)

\* variant: similitud is the distance itself
ChunkOfRow_distance(i, q) ==
    [chunk_id |-> Passage(i).id,
     titulo |-> Passage(i).titulo,
     cont |-> Passage(i).cont,
     similitud |-> CosDistance(PassageEmbedding(i), q),
     subchunk |-> Passage(i).subchunk,
     num |-> Passage(i).num,
     created_at |-> Passage(i).created_at]

\* row -> chunk dict of buscar_chunks_similares
ChunkOfRow(i, q) ==
    [chunk_id |-> Passage(i).id,
     titulo |-> Passage(i).titulo,
     cont |-> Passage(i).cont,
     similitud |-> Scale - CosDistance(PassageEmbedding(i), q),
     subchunk |-> Passage(i).subchunk,
     num |-> Passage(i).num,
     created_at |-> Passage(i).created_at]

\* the embedding client was not reached
NoEmbedding == [raised |-> FALSE, value |-> <<>>, called |-> FALSE]

\* variant: the connection is opened before the embedding is looked at
buscar_chunks_similares_eager(query, top_k, logger, embedOk, up, failAt, rows) ==
    IF logger = NoLogger THEN
        [raised |-> TRUE, value |-> <<>>, leak |-> 0, ext |-> <<>>,
         emb |-> NoEmbedding, store |-> "skipped"]
    ELSE
    LET emb == generar_embedding_query(query, NoLogger, embedOk)
        e1 == IF emb.called THEN <<"embed">> ELSE <<>>
    IN IF ~up THEN
           [raised |-> FALSE, value |-> <<>>, leak |-> 0, ext |-> e1 \o <<"connect">>,
            emb |-> emb, store |-> "connect failed"]
       ELSE IF emb.raised \/ emb.value = <<>> THEN
           [raised |-> FALSE, value |-> <<>>, leak |-> 1, ext |-> e1 \o <<"connect">>,
            emb |-> emb, store |-> "skipped"]
       ELSE IF failAt = 1 THEN
           [raised |-> FALSE, value |-> <<>>, leak |-> 1,
            ext |-> e1 \o <<"connect", "nn_query">>,
            emb |-> emb, store |-> "query failed"]
       ELSE
           [raised |-> FALSE,
            value |-> [i \in 1..Len(rows) |-> ChunkOfRow(rows[i], emb.value)],
            leak |-> 0,
            ext |-> e1 \o <<"connect", "nn_query">>,
            emb |-> emb, store |-> "ok"]

\* variant: a failed embedding call is tried a second time
buscar_chunks_similares_retry(query, top_k, logger, embedOk, up, failAt, rows) ==
    IF logger = NoLogger THEN
        [raised |-> TRUE, value |-> <<>>, leak |-> 0, ext |-> <<>>,
         emb |-> NoEmbedding, store |-> "skipped"]
    ELSE
    LET emb == generar_embedding_query(query, NoLogger, embedOk)
        e1 == IF ~emb.called THEN <<>>
              ELSE IF embedOk THEN <<"embed">> ELSE <<"embed", "embed">>
    IN IF emb.raised \/ emb.value = <<>> THEN
           [raised |-> FALSE, value |-> <<>>, leak |-> 0, ext |-> e1,
            emb |-> emb, store |-> "skipped"]
       ELSE IF ~up THEN
           [raised |-> FALSE, value |-> <<>>, leak |-> 0, ext |-> e1 \o <<"connect">>,
            emb |-> emb, store |-> "connect failed"]
       ELSE IF failAt = 1 THEN
           [raised |-> FALSE, value |-> <<>>, leak |-> 1,
            ext |-> e1 \o <<"connect", "nn_query">>,
            emb |-> emb, store |-> "query failed"]
       ELSE
           [raised |-> FALSE,
            value |-> [i \in 1..Len(rows) |-> ChunkOfRow(rows[i], emb.value)],
            leak |-> 0,
            ext |-> e1 \o <<"connect", "nn_query">>,
            emb |-> emb, store |-> "ok"]

\* rows: the row ids the store hands back when the query succeeds.
\* Yields [raised, value, leak, ext, emb, store]: ext lists the external
\* calls made, emb is what generar_embedding_query did, store is how the
\* store call went (skipped, connect failed, query failed, ok).
buscar_chunks_similares(query, top_k, logger, embedOk, up, failAt, rows) ==
    IF logger = NoLogger THEN
        \* logger.debug raises inside the try and logger.error raises again
        [raised |-> TRUE, value |-> <<>>, leak |-> 0, ext |-> <<>>,
         emb |-> NoEmbedding, store |-> "skipped"]
    ELSE
    LET emb == generar_embedding_query(query, NoLogger, embedOk)
        e1 == IF emb.called THEN <<"embed">> ELSE <<>>
    IN IF emb.raised \/ emb.value = <<>> THEN
           [raised |-> FALSE, value |-> <<>>, leak |-> 0, ext |-> e1,
            emb |-> emb, store |-> "skipped"]
       ELSE IF ~up THEN
           [raised |-> FALSE, value |-> <<>>, leak |-> 0, ext |-> e1 \o <<"connect">>,
            emb |-> emb, store |-> "connect failed"]
       ELSE IF failAt = 1 THEN
           \* cur.execute raises: except branch, conn.close() skipped
           [raised |-> FALSE, value |-> <<>>, leak |-> 1,
            ext |-> e1 \o <<"connect", "nn_query">>,
            emb |-> emb, store |-> "query failed"]
       ELSE
           [raised |-> FALSE,
            value |-> [i \in 1..Len(rows) |-> ChunkOfRow(rows[i], emb.value)],
            leak |-> 0,
            ext |-> e1 \o <<"connect", "nn_query">>,
            emb |-> emb, store |-> "ok"]

busqueda_cupra_chunks(query, top_k, logger, embedOk, up, failAt, rows) ==
    LET r == buscar_chunks_similares(query, top_k, logger, embedOk, up, failAt, rows)
    IN IF r.raised \/ logger = NoLogger
       THEN [r EXCEPT !.raised = FALSE, !.value = <<>>]
       ELSE r

\* ------------------------------------------------------- pipeline stages
paso_1_rag(logger, query, top_k, embedOk, up, failAt, rows) ==
    IF logger = NoLogger THEN
        \* self.logger.info before the try
        [raised |-> TRUE, value |-> <<>>, leak |-> 0, ext |-> <<>>,
         emb |-> NoEmbedding, store |-> "skipped"]
    ELSE busqueda_cupra_chunks(query, top_k, logger, embedOk, up, failAt, rows)

FallbackText == <<"Lo siento, no encontre informacion relevante en el manual de CUPRA">>
ErrorText(e) == <<"Error generando respuesta: ", e>>
LlmText == <<"respuesta del modelo">>
NoneText == <<"None">>

\* one context block per chunk; the section line only when subchunk > 0
construir_contexto(chunks) ==
    [i \in 1..Len(chunks) |->
        <<"INFORMACION", i, "Titulo", chunks[i].titulo>>
        \o (IF chunks[i].subchunk > 0 THEN <<"Seccion", chunks[i].subchunk>> ELSE <<>>)
        \o <<"Contenido", chunks[i].cont>>]

GenOutcomes == {"text", "none", "raise"}

\* confianza = sum(chunk['similitud'] ...) / len(chunks_relevantes), kept as
\* the pair <<sum, len>>
\* variant: divides by top_k instead of the number of chunks
confianza_promedio_topk(chunks) ==
    <<SumSeq([i \in 1..Len(chunks) |-> chunks[i].similitud]), TopK>>

confianza_promedio(chunks) ==
    <<SumSeq([i \in 1..Len(chunks) |-> chunks[i].similitud]), Len(chunks)>>

\* 0.0
ZeroConfidence == <<0, 1>>

\* variant: the sources are listed from the last chunk to the first
fuentes_de_reversed(chunks) ==
    [i \in 1..Len(chunks) |->
        LET c == chunks[Len(chunks) + 1 - i] IN
        [titulo |-> c.titulo, similitud |-> c.similitud,
         subchunk |-> c.subchunk, chunk_id |-> c.chunk_id]]

fuentes_de(chunks) ==
    [i \in 1..Len(chunks) |-> [titulo |-> chunks[i].titulo,
                               similitud |-> chunks[i].similitud,
                               subchunk |-> chunks[i].subchunk,
                               chunk_id |-> chunks[i].chunk_id]]

\* the dict of the `if not chunks_relevantes` branch
NoAnswer == [respuesta |-> FallbackText, contexto_usado |-> <<>>,
             confianza |-> ZeroConfidence, fuentes |-> <<>>]

\* the dict of the except branch
ErrorAnswer(e) == [respuesta |-> ErrorText(e), contexto_usado |-> <<>>,
                   confianza |-> ZeroConfidence, fuentes |-> <<>>]

\* the dict of the try branch; content is the model's message content
LlmAnswer(chunks, content) ==
    [respuesta |-> content,
     contexto_usado |-> construir_contexto(chunks),
     confianza |-> confianza_promedio(chunks),
     fuentes |-> fuentes_de(chunks)]

\* gen: what client.chat.completions.create does: "text" a reply, "none" a
\* reply whose content is None, "raise" an exception.
\* Yields [raised, value, ext].
\* variant: no `if not chunks_relevantes` guard, so the model is called and
\* the division by len([]) lands in the except branch
paso_2_llm_noguard(logger, query, chunks_relevantes, gen) ==
    IF logger = NoLogger THEN
        [raised |-> TRUE, value |-> NoAnswer, ext |-> <<>>]
    ELSE IF gen = "raise" \/ chunks_relevantes = <<>> THEN
        [raised |-> FALSE, ext |-> <<"llm_call">>, value |-> ErrorAnswer("llm failed")]
    ELSE
        [raised |-> FALSE, ext |-> <<"llm_call">>,
         value |-> LlmAnswer(chunks_relevantes, IF gen = "none" THEN NoneText ELSE LlmText)]

\* variant: no try/except around the model call
paso_2_llm_nocatch(logger, query, chunks_relevantes, gen) ==
    IF logger = NoLogger THEN
        [raised |-> TRUE, value |-> NoAnswer, ext |-> <<>>]
    ELSE IF chunks_relevantes = <<>> THEN
        [raised |-> FALSE, value |-> NoAnswer, ext |-> <<>>]
    ELSE IF gen = "raise" THEN
        [raised |-> TRUE, ext |-> <<"llm_call">>, value |-> ErrorAnswer("llm failed")]
    ELSE
        [raised |-> FALSE, ext |-> <<"llm_call">>,
         value |-> LlmAnswer(chunks_relevantes, IF gen = "none" THEN NoneText ELSE LlmText)]

paso_2_llm(logger, query, chunks_relevantes, gen) ==
    IF logger = NoLogger THEN
        \* self.logger.info before the try
        [raised |-> TRUE, value |-> NoAnswer, ext |-> <<>>]
    ELSE IF chunks_relevantes = <<>> THEN
        [raised |-> FALSE, value |-> NoAnswer, ext |-> <<>>]
    ELSE IF gen = "raise" THEN
        [raised |-> FALSE, ext |-> <<"llm_call">>, value |-> ErrorAnswer("llm failed")]
    ELSE
        [raised |-> FALSE, ext |-> <<"llm_call">>,
         value |-> LlmAnswer(chunks_relevantes, IF gen = "none" THEN NoneText ELSE LlmText)]

\* ------------------------------------------------------- int() and str()
Digits == <<"0", "1", "2", "3", "4", "5", "6", "7", "8", "9">>
IsDigit(c) == \E d \in 1..10 : Digits[d] = c
DigitVal(c) == (CHOOSE d \in 1..10 : Digits[d] = c) - 1

RECURSIVE DigitsValue(_, _)
DigitsValue(s, acc) ==
    IF s = <<>> THEN acc
    ELSE IF Head(s) = "_" THEN DigitsValue(Tail(s), acc)
    ELSE DigitsValue(Tail(s), 10 * acc + DigitVal(Head(s)))

\* Python's int(text): surrounding whitespace, one optional sign, decimal
\* digits, single underscores only between digits
ParseInt(text) ==
    LET t == Strip(text)
        signed == t # <<>> /\ Head(t) \in {"+", "-"}
        body == IF signed THEN Tail(t) ELSE t
        wellFormed ==
            /\ body # <<>>
            /\ \A i \in 1..Len(body) : IsDigit(body[i]) \/ body[i] = "_"
            /\ IsDigit(body[1])
            /\ IsDigit(body[Len(body)])
            /\ \A i \in 1..(Len(body) - 1) : ~(body[i] = "_" /\ body[i + 1] = "_")
    IN IF ~wellFormed THEN [ok |-> FALSE, n |-> 0]
       ELSE [ok |-> TRUE,
             n |-> IF signed /\ Head(t) = "-"
                   THEN 0 - DigitsValue(body, 0) ELSE DigitsValue(body, 0)]

RECURSIVE NatStr(_)
NatStr(n) == IF n < 10 THEN <<Digits[n + 1]>>
             ELSE Append(NatStr(n \div 10), Digits[(n % 10) + 1])

\* Python's str(n) for an int
Str(n) == IF n < 0 THEN <<"-">> \o NatStr(0 - n) ELSE NatStr(n)

DefaultScore == <<"5">>

ReplyChars == {" ", "0", "1", "x"}

\* what the evaluator call does: "content" a reply with that text, "none" a
\* reply whose content is None, "raise" an exception
EvalReplies ==
    {[kind |-> "content", text |-> t] : t \in SeqsUpTo(ReplyChars, MaxReplyLen)}
    \cup {[kind |-> "none", text |-> <<>>], [kind |-> "raise", text |-> <<>>]}

\* Each yields [raised, value, ext].
\* variant: no 1 <= puntuacion <= 10 check
paso_3_quality_agent_norange(logger, query, respuesta_llm, reply) ==
    IF logger = NoLogger THEN
        [raised |-> TRUE, value |-> DefaultScore, ext |-> <<>>]
    ELSE IF reply.kind # "content" \/ ~ParseInt(Strip(reply.text)).ok THEN
        [raised |-> FALSE, value |-> DefaultScore, ext |-> <<"eval_call">>]
    ELSE
        [raised |-> FALSE, value |-> Str(ParseInt(Strip(reply.text)).n),
         ext |-> <<"eval_call">>]

\* variant: an answer without sources is given the default score unasked
paso_3_quality_agent_skipfallback(logger, query, respuesta_llm, reply) ==
    IF logger = NoLogger THEN
        [raised |-> TRUE, value |-> DefaultScore, ext |-> <<>>]
    ELSE IF respuesta_llm.fuentes = <<>> THEN
        [raised |-> FALSE, value |-> DefaultScore, ext |-> <<>>]
    ELSE IF reply.kind # "content" THEN
        [raised |-> FALSE, value |-> DefaultScore, ext |-> <<"eval_call">>]
    ELSE
        LET puntuacion == ParseInt(Strip(reply.text))
        IN [raised |-> FALSE, ext |-> <<"eval_call">>,
            value |-> IF puntuacion.ok /\ ScoreLo <= puntuacion.n /\ puntuacion.n <= ScoreHi
                      THEN Str(puntuacion.n)
                      ELSE DefaultScore]

\* variant: no outer try/except
paso_3_quality_agent_nocatch(logger, query, respuesta_llm, reply) ==
    IF logger = NoLogger THEN
        [raised |-> TRUE, value |-> DefaultScore, ext |-> <<>>]
    ELSE IF reply.kind # "content" THEN
        [raised |-> TRUE, value |-> DefaultScore, ext |-> <<"eval_call">>]
    ELSE
        LET puntuacion == ParseInt(Strip(reply.text))
        IN [raised |-> FALSE, ext |-> <<"eval_call">>,
            value |-> IF puntuacion.ok /\ ScoreLo <= puntuacion.n /\ puntuacion.n <= ScoreHi
                      THEN Str(puntuacion.n)
                      ELSE DefaultScore]

paso_3_quality_agent(logger, query, respuesta_llm, reply) ==
    IF logger = NoLogger THEN
        \* self.logger.info before the try
        [raised |-> TRUE, value |-> DefaultScore, ext |-> <<>>]
    ELSE IF reply.kind = "raise" THEN
        [raised |-> FALSE, value |-> DefaultScore, ext |-> <<"eval_call">>]
    ELSE IF reply.kind = "none" THEN
        \* None.strip() raises AttributeError, caught by the outer except
        [raised |-> FALSE, value |-> DefaultScore, ext |-> <<"eval_call">>]
    ELSE
        LET evaluacion_texto == Strip(reply.text)
            puntuacion == ParseInt(evaluacion_texto)
        IN [raised |-> FALSE, ext |-> <<"eval_call">>,
            value |-> IF puntuacion.ok /\ ScoreLo <= puntuacion.n /\ puntuacion.n <= ScoreHi
                      THEN Str(puntuacion.n)
                      ELSE DefaultScore]

\* variant: the result drops the retrieved chunks
resultado_final_nochunks(q, chunks, respuesta, evaluacion) ==
    [query |-> q,
     chunks_recuperados |-> <<>>,
     respuesta_llm |-> respuesta,
     evaluacion_calidad |-> evaluacion,
     timestamp |-> "now",
     fuente |-> "PostgreSQL"]

\* the dict procesar_consulta_completa returns
resultado_final(q, chunks, respuesta, evaluacion) ==
    [query |-> q,
     chunks_recuperados |-> chunks,
     respuesta_llm |-> respuesta,
     evaluacion_calidad |-> evaluacion,
     timestamp |-> "now",
     fuente |-> "PostgreSQL"]

\* --------------------------------------------------------------- the state
VARIABLES
    boot,               \* host start-up position: import, init_health, init_stats,
                        \* init_end, serving, crashed
    pipeline,           \* Uninitialized, Ready, Failed (app.py holds None unless Ready)
    logger,             \* self.logger of the pipeline object
    storeUp,            \* the store accepts connections
    corpus,             \* number of rows in cupra_chunks
    openConns,          \* connections opened and not closed
    salud_bd,           \* __init__: what verificar_salud_bd returned
    stats,              \* __init__: what obtener_estadisticas_bd did
    lastOp,             \* the accessor calls of the handler that ran last
    req,                \* the server's position: idle (waiting for a request), rag,
                        \* llm, quality, return (inside a chat request),
                        \* responded (a handler has returned its response)
    query,              \* procesar_consulta_completa: query
    chunks_relevantes,  \* procesar_consulta_completa: chunks_relevantes
    respuesta_llm,      \* procesar_consulta_completa: respuesta_llm
    evaluacion_calidad, \* procesar_consulta_completa: evaluacion_calidad
    resultado,          \* chat_endpoint: resultado
    calls,              \* stage calls of the request in progress, in order
    response            \* the HTTP response of the handler that ran last

hostVars == <<boot, pipeline, logger, salud_bd, stats>>
storeVars == <<storeUp, corpus>>
chatVars == <<req, query, chunks_relevantes, respuesta_llm, evaluacion_calidad,
              resultado, calls>>

vars == <<boot, pipeline, logger, storeUp, corpus, openConns, salud_bd, stats, lastOp,
          req, query, chunks_relevantes, respuesta_llm, evaluacion_calidad,
          resultado, calls, response>>

NotCalled == [raised |-> FALSE, leak |-> 0, value |-> EmptyDict]
NoOp == [op |-> "none"]
NoResponse == [endpoint |-> "none", status |-> 0, body |-> EmptyDict]
Unset == [respuesta |-> <<>>, contexto_usado |-> <<>>,
          confianza |-> ZeroConfidence, fuentes |-> <<>>]
NoResult == resultado_final(<<>>, <<>>, Unset, <<>>)

\* the corpus sizes tried: empty, fewer rows than top_k, more rows than top_k
CorpusSizes == {0, 2, MaxCorpus}

\* what the three health probes find: <<extension, table, index>>
Schemas == {<<TRUE, TRUE, TRUE>>, <<TRUE, TRUE, FALSE>>, <<FALSE, FALSE, FALSE>>}

\* connect() succeeds when the store is up and has a free connection slot
ConnectOk == storeUp /\ openConns < MaxConns

Init ==
    /\ boot = "import"
    /\ pipeline = "Uninitialized"
    /\ logger = NoLogger
    /\ storeUp \in BOOLEAN
    /\ corpus \in CorpusSizes
    /\ openConns = 0
    /\ salud_bd = NotCalled
    /\ stats = NotCalled
    /\ lastOp = NoOp
    /\ req = "idle"
    /\ query = <<>>
    /\ chunks_relevantes = <<>>
    /\ respuesta_llm = Unset
    /\ evaluacion_calidad = <<>>
    /\ resultado = NoResult
    /\ calls = <<>>
    /\ response = NoResponse

\* the environment: the store goes down or comes back.  The store is looked
\* at during start-up and at the start of each handler's accessor call, so a
\* change while a handler runs is seen as a change before the next one.
StoreFlip ==
    /\ boot # "crashed"
    /\ req = "idle"
    /\ storeUp' = ~storeUp
    /\ UNCHANGED <<hostVars, corpus, openConns, lastOp, chatVars, response>>

\* cupra_retrieval.py module level: cupra_retriever = CupraRetrieval(), whose
\* _test_connection re-raises when connect() fails
ImportRetriever ==
    /\ boot = "import"
    /\ boot' = IF ConnectOk THEN "init_health" ELSE "crashed"
    /\ lastOp' = [op |-> "test_connection", up |-> ConnectOk]
    /\ UNCHANGED <<pipeline, logger, salud_bd, stats, storeVars, openConns,
                   chatVars, response>>

\* CupraRAGPipeline.__init__(logger=logger), up to the health gate
ConstructHealth ==
    /\ boot = "init_health"
    /\ logger' = AppLogger
    /\ \E failAt \in 0..HealthProbes, sch \in Schemas :
        LET r == verificar_salud_bd(ConnectOk, failAt, sch[1], sch[2], sch[3]) IN
        /\ salud_bd' = r
        /\ openConns' = openConns + r.leak
        /\ lastOp' = [op |-> "verificar_salud_bd", up |-> ConnectOk, failAt |-> failAt, r |-> r]
        /\ IF r.value.conexion_ok
           THEN /\ boot' = "init_stats"
                /\ pipeline' = pipeline
           ELSE /\ boot' = "init_end"
                /\ pipeline' = "Failed"
    /\ UNCHANGED <<stats, storeVars, chatVars, response>>

\* variant: no total_chunks check
StatsGate_nocheck(r) == ~r.raised

\* the gate of __init__ on the statistics: TRUE when construction goes on
StatsGate(r) == ~r.raised /\ DictGet(r.value, "total_chunks", 0) # 0

\* CupraRAGPipeline.__init__, from the statistics call to the end
ConstructStats ==
    /\ boot = "init_stats"
    /\ \E failAt \in 0..StatQueries :
        LET r == obtener_estadisticas_bd(NoLogger, ConnectOk, failAt, corpus) IN
        /\ stats' = r
        /\ openConns' = openConns + r.leak
        /\ lastOp' = [op |-> "obtener_estadisticas_bd", up |-> ConnectOk, failAt |-> failAt, r |-> r]
        /\ pipeline' = IF StatsGate(r) THEN "Ready" ELSE "Failed"
    /\ boot' = "init_end"
    /\ UNCHANGED <<logger, salud_bd, storeVars, chatVars, response>>

\* app.py module level: try: pipeline = CupraRAGPipeline(...) except: pipeline = None
\* and the server starts; the constructor's frame is gone
AppStart ==
    /\ boot = "init_end"
    /\ boot' = "serving"
    /\ salud_bd' = NotCalled
    /\ stats' = NotCalled
    /\ lastOp' = NoOp
    /\ UNCHANGED <<pipeline, logger, storeVars, openConns, chatVars, response>>

\* ------------------------------------------------------------ /api/chat
DegradedBody(q) ==
    [success |-> FALSE,
     query |-> q,
     respuesta_llm |-> [respuesta |-> <<"Servicio en modo degradado (DB no disponible).">>,
                        confianza |-> <<0, 1>>,
                        fuentes |-> <<>>],
     evaluacion_calidad |-> <<"5">>,
     chunks_recuperados |-> 0,
     timestamp |-> "now",
     fuente |-> "PostgreSQL"]

\* ChatResponse(success=True, ...) built from the pipeline's result
ChatBody(q, res) ==
    [success |-> TRUE,
     query |-> q,
     respuesta_llm |-> [respuesta |-> res.respuesta_llm.respuesta,
                        confianza |-> res.respuesta_llm.confianza,
                        fuentes |-> res.respuesta_llm.fuentes],
     evaluacion_calidad |-> res.evaluacion_calidad,
     chunks_recuperados |-> Len(res.chunks_recuperados),
     timestamp |-> res.timestamp,
     fuente |-> "PostgreSQL"]

ClearLocals ==
    /\ query' = <<>>
    /\ chunks_relevantes' = <<>>
    /\ respuesta_llm' = Unset
    /\ evaluacion_calidad' = <<>>
    /\ resultado' = NoResult
    /\ calls' = <<>>

\* an exception reaches chat_endpoint's except Exception: HTTP 500
ChatAbort ==
    /\ req' = "responded"
    /\ response' = [endpoint |-> "chat", status |-> 500, body |-> EmptyDict]
    /\ ClearLocals

\* variant: no `if not query` check
ChatBegin_novalidate ==
    /\ boot = "serving"
    /\ req = "idle"
    /\ \E q \in Queries :
        IF pipeline # "Ready" THEN
            /\ response' = [endpoint |-> "chat", status |-> 503, body |-> DegradedBody(q),
                            request |-> q]
            /\ req' = "responded"
            /\ ClearLocals
        ELSE IF logger = NoLogger THEN
            ChatAbort
        ELSE
            /\ response' = NoResponse
            /\ req' = "rag"
            /\ query' = Strip(q)
            /\ chunks_relevantes' = <<>>
            /\ respuesta_llm' = Unset
            /\ evaluacion_calidad' = <<>>
            /\ resultado' = NoResult
            /\ calls' = <<>>
    /\ lastOp' = NoOp
    /\ UNCHANGED <<hostVars, storeVars, openConns>>

\* variant: no `if pipeline is None` check, the pipeline is called whatever
\* its state
ChatBegin_nogate ==
    /\ boot = "serving"
    /\ req = "idle"
    /\ \E q \in Queries :
        IF Strip(q) = <<>> THEN
            /\ response' = [endpoint |-> "chat", status |-> 400, body |-> EmptyDict,
                            request |-> q]
            /\ req' = "responded"
            /\ ClearLocals
        ELSE IF logger = NoLogger THEN
            ChatAbort
        ELSE
            /\ response' = NoResponse
            /\ req' = "rag"
            /\ query' = Strip(q)
            /\ chunks_relevantes' = <<>>
            /\ respuesta_llm' = Unset
            /\ evaluacion_calidad' = <<>>
            /\ resultado' = NoResult
            /\ calls' = <<>>
    /\ lastOp' = NoOp
    /\ UNCHANGED <<hostVars, storeVars, openConns>>

\* chat_endpoint up to the call of the pipeline.  A response given without
\* calling the pipeline also records the request's query as it was sent.
ChatBegin ==
    /\ boot = "serving"
    /\ req = "idle"
    /\ \E q \in Queries :
        IF pipeline # "Ready" THEN
            /\ response' = [endpoint |-> "chat", status |-> 503, body |-> DegradedBody(q),
                            request |-> q]
            /\ req' = "responded"
            /\ ClearLocals
        ELSE IF Strip(q) = <<>> THEN
            /\ response' = [endpoint |-> "chat", status |-> 400, body |-> EmptyDict,
                            request |-> q]
            /\ req' = "responded"
            /\ ClearLocals
        ELSE IF logger = NoLogger THEN
            \* procesar_consulta_completa: self.logger.info raises
            ChatAbort
        ELSE
            /\ response' = NoResponse
            /\ req' = "rag"
            /\ query' = Strip(q)
            /\ chunks_relevantes' = <<>>
            /\ respuesta_llm' = Unset
            /\ evaluacion_calidad' = <<>>
            /\ resultado' = NoResult
            /\ calls' = <<>>
    /\ lastOp' = NoOp
    /\ UNCHANGED <<hostVars, storeVars, openConns>>

\* procesar_consulta_completa: chunks_relevantes = self.paso_1_rag(query, top_k=4)
Paso1Rag ==
    /\ req = "rag"
    /\ \E embedOk \in BOOLEAN, failAt \in 0..1, rows \in NearestRows(Embed(query), TopK, corpus) :
        LET r == paso_1_rag(logger, query, TopK, embedOk, ConnectOk, failAt, rows) IN
        /\ openConns' = openConns + r.leak
        /\ IF r.raised THEN ChatAbort
           ELSE /\ chunks_relevantes' = r.value
                /\ calls' = Append(calls, [stage |-> "paso_1_rag", arg |-> query,
                                           ret |-> r.value, ext |-> r.ext,
                                           embedOk |-> embedOk, emb |-> r.emb,
                                           store |-> r.store])
                /\ req' = "llm"
                /\ UNCHANGED <<query, respuesta_llm, evaluacion_calidad, resultado, response>>
    /\ UNCHANGED <<hostVars, storeVars, lastOp>>

\* procesar_consulta_completa: respuesta_llm = self.paso_2_llm(query, chunks_relevantes)
Paso2Llm ==
    /\ req = "llm"
    /\ \E gen \in GenOutcomes :
        LET r == paso_2_llm(logger, query, chunks_relevantes, gen) IN
        IF r.raised THEN ChatAbort
        ELSE /\ respuesta_llm' = r.value
             /\ calls' = Append(calls, [stage |-> "paso_2_llm", arg |-> chunks_relevantes,
                                        ret |-> r.value, ext |-> r.ext,
                                        gen |-> IF r.ext = <<>> THEN "not called" ELSE gen])
             /\ req' = "quality"
             /\ UNCHANGED <<query, chunks_relevantes, evaluacion_calidad, resultado, response>>
    /\ UNCHANGED <<hostVars, storeVars, openConns, lastOp>>

\* procesar_consulta_completa, to its end:
\* evaluacion_calidad = self.paso_3_quality_agent(query, respuesta_llm), then
\* resultado_final is built and returned to chat_endpoint
Paso3Quality ==
    /\ req = "quality"
    /\ \E reply \in EvalReplies :
        LET r == paso_3_quality_agent(logger, query, respuesta_llm, reply) IN
        IF r.raised THEN ChatAbort
        ELSE /\ evaluacion_calidad' = r.value
             /\ calls' = Append(calls, [stage |-> "paso_3_quality_agent", arg |-> respuesta_llm,
                                        ret |-> r.value, ext |-> r.ext,
                                        reply |-> reply])
             /\ resultado' = resultado_final(query, chunks_relevantes, respuesta_llm, r.value)
             /\ req' = "return"
             /\ UNCHANGED <<query, chunks_relevantes, respuesta_llm, response>>
    /\ UNCHANGED <<hostVars, storeVars, openConns, lastOp>>

\* chat_endpoint after the pipeline returned: the ChatResponse
ChatRespond ==
    /\ req = "return"
    /\ response' = [endpoint |-> "chat", status |-> 200, body |-> ChatBody(query, resultado)]
    /\ req' = "responded"
    /\ ClearLocals
    /\ UNCHANGED <<hostVars, storeVars, openConns, lastOp>>

\* ---------------------------------------------------------- /api/health
HealthEndpoint ==
    /\ boot = "serving"
    /\ req = "idle"
    /\ \E failAt \in 0..HealthProbes, sch \in Schemas :
        LET r == verificar_salud_bd(ConnectOk, failAt, sch[1], sch[2], sch[3]) IN
        /\ openConns' = openConns + r.leak
        /\ lastOp' = [op |-> "verificar_salud_bd", up |-> ConnectOk, failAt |-> failAt, r |-> r]
        /\ response' =
             IF r.raised THEN [endpoint |-> "health", status |-> 500, body |-> EmptyDict]
             ELSE [endpoint |-> "health", status |-> 200,
                   body |-> [status |-> IF pipeline = "Ready" /\ r.value.conexion_ok
                                        THEN "ok" ELSE "error",
                             pipeline_available |-> pipeline = "Ready",
                             database_status |-> r.value,
                             timestamp |-> "now"]]
    /\ req' = "responded"
    /\ UNCHANGED <<hostVars, storeVars, query, chunks_relevantes, respuesta_llm,
                   evaluacion_calidad, resultado, calls>>

\* ---------------------------------------------------- /api/database/stats
StatsEndpoint ==
    /\ boot = "serving"
    /\ req = "idle"
    /\ \E failAt \in 0..StatQueries, hFail \in 0..HealthProbes, sch \in Schemas :
        LET r == obtener_estadisticas_bd(NoLogger, ConnectOk, failAt, corpus)
            h == verificar_salud_bd(ConnectOk, hFail, sch[1], sch[2], sch[3])
        IN IF r.raised THEN
               /\ openConns' = openConns + r.leak
               /\ lastOp' = [op |-> "obtener_estadisticas_bd", up |-> ConnectOk,
                             failAt |-> failAt, r |-> r]
               /\ response' = [endpoint |-> "stats", status |-> 500, body |-> EmptyDict]
           ELSE
               /\ openConns' = openConns + r.leak + h.leak
               /\ lastOp' = [op |-> "obtener_estadisticas_bd", up |-> ConnectOk,
                             failAt |-> failAt, r |-> r]
               /\ response' = [endpoint |-> "stats", status |-> 200,
                               body |-> [success |-> TRUE, statistics |-> r.value,
                                         health |-> h.value, timestamp |-> "now"]]
    /\ req' = "responded"
    /\ UNCHANGED <<hostVars, storeVars, query, chunks_relevantes, respuesta_llm,
                   evaluacion_calidad, resultado, calls>>

\* ------------------------------------------------------ /api/search/title
SearchChars == {" ", "a", "B", "%", "_"}
TitleQueries == SeqsUpTo(SearchChars, MaxTitleLen)

TitleEndpoint ==
    /\ boot = "serving"
    /\ req = "idle"
    /\ \E titulo \in TitleQueries, limit \in 0..MaxLimit, failAt \in 0..1 :
        IF Strip(titulo) = <<>> THEN
            /\ response' = [endpoint |-> "title", status |-> 400, body |-> EmptyDict]
            /\ lastOp' = NoOp
            /\ openConns' = openConns
        ELSE
            \E rows \in TitleRows(TitlePattern(Strip(titulo)), limit, corpus) :
            LET r == buscar_por_titulo(Strip(titulo), limit, ConnectOk, failAt, rows) IN
            /\ openConns' = openConns + r.leak
            /\ lastOp' = [op |-> "buscar_por_titulo", up |-> ConnectOk, failAt |-> failAt,
                          r |-> r, titulo |-> Strip(titulo), limit |-> limit]
            /\ response' = [endpoint |-> "title", status |-> 200,
                            body |-> [success |-> TRUE, titulo_buscado |-> titulo,
                                      resultados |-> r.value,
                                      total_encontrados |-> Len(r.value),
                                      timestamp |-> "now"]]
    /\ req' = "responded"
    /\ UNCHANGED <<hostVars, storeVars, query, chunks_relevantes, respuesta_llm,
                   evaluacion_calidad, resultado, calls>>

\* the server has sent the response and waits for the next request
Deliver ==
    /\ req = "responded"
    /\ req' = "idle"
    /\ response' = NoResponse
    /\ lastOp' = NoOp
    /\ UNCHANGED <<hostVars, storeVars, openConns, query, chunks_relevantes, respuesta_llm,
                   evaluacion_calidad, resultado, calls>>

Next ==
    \/ StoreFlip
    \/ ImportRetriever
    \/ ConstructHealth
    \/ ConstructStats
    \/ AppStart
    \/ ChatBegin
    \/ Paso1Rag
    \/ Paso2Llm
    \/ Paso3Quality
    \/ ChatRespond
    \/ HealthEndpoint
    \/ StatsEndpoint
    \/ TitleEndpoint
    \/ Deliver

Spec == Init /\ [][Next]_vars

\* ------------------------------------------- two invocations on one pipeline
\* Two invocations of procesar_consulta_completa on the one Ready pipeline
\* object and the one module-level retriever, each on a thread of its own and
\* interleaved at the external calls.  req, query, chunks_relevantes,
\* respuesta_llm, evaluacion_calidad, resultado and calls are here indexed by
\* the invocation; pipeline, logger, the store and its connections are shared.
Threads == 1..2

ThreadQueries == {<<"a">>, <<"b">>}

\* the evaluator replies tried here: a score, and a failed call
ThreadReplies == {[kind |-> "content", text |-> <<"1">>], [kind |-> "raise", text |-> <<>>]}

\* variant: the locals are kept as attributes of the shared pipeline object,
\* where invocation 1 overwrites them as soon as it runs
Local_shared(v, t) == IF req[1] # "idle" THEN v[1] ELSE v[t]

\* a local variable of invocation t: it lives in that invocation's frame
Local(v, t) == v[t]

InitThreads ==
    /\ boot = "serving"
    /\ pipeline = "Ready"
    /\ logger = AppLogger
    /\ storeUp = TRUE
    /\ corpus \in CorpusSizes \ {0}
    /\ openConns = 0
    /\ salud_bd = NotCalled
    /\ stats = NotCalled
    /\ lastOp = NoOp
    /\ req = [t \in Threads |-> "idle"]
    /\ query = [t \in Threads |-> <<>>]
    /\ chunks_relevantes = [t \in Threads |-> <<>>]
    /\ respuesta_llm = [t \in Threads |-> Unset]
    /\ evaluacion_calidad = [t \in Threads |-> <<>>]
    /\ resultado = [t \in Threads |-> NoResult]
    /\ calls = [t \in Threads |-> <<>>]
    /\ response = NoResponse

\* procesar_consulta_completa(query) is entered
ThreadBegin(t) ==
    /\ req[t] = "idle"
    /\ \E q \in ThreadQueries : query' = [query EXCEPT ![t] = q]
    /\ req' = [req EXCEPT ![t] = "rag"]
    /\ UNCHANGED <<hostVars, storeVars, openConns, lastOp, chunks_relevantes, respuesta_llm,
                   evaluacion_calidad, resultado, calls, response>>

\* chunks_relevantes = self.paso_1_rag(query, top_k=4)
ThreadPaso1(t) ==
    /\ req[t] = "rag"
    /\ \E rows \in NearestRows(Embed(Local(query, t)), TopK, corpus) :
       \E embedOk \in BOOLEAN, failAt \in 0..1 :
        LET r == paso_1_rag(logger, Local(query, t), TopK, embedOk, ConnectOk, failAt, rows) IN
        /\ ~r.raised
        /\ openConns' = openConns + r.leak
        /\ chunks_relevantes' = [chunks_relevantes EXCEPT ![t] = r.value]
        /\ calls' = [calls EXCEPT ![t] =
                        Append(@, [stage |-> "paso_1_rag", q |-> Local(query, t),
                                   ret |-> r.value, embedOk |-> embedOk, store |-> r.store,
                                   rows |-> IF r.store = "ok" THEN rows ELSE <<>>])]
    /\ req' = [req EXCEPT ![t] = "llm"]
    /\ UNCHANGED <<hostVars, storeVars, lastOp, query, respuesta_llm, evaluacion_calidad,
                   resultado, response>>

\* respuesta_llm = self.paso_2_llm(query, chunks_relevantes)
ThreadPaso2(t) ==
    /\ req[t] = "llm"
    /\ \E gen \in GenOutcomes :
        LET r == paso_2_llm(logger, Local(query, t), Local(chunks_relevantes, t), gen) IN
        /\ ~r.raised
        /\ respuesta_llm' = [respuesta_llm EXCEPT ![t] = r.value]
        /\ calls' = [calls EXCEPT ![t] =
                        Append(@, [stage |-> "paso_2_llm", q |-> Local(query, t),
                                   arg |-> Local(chunks_relevantes, t), ret |-> r.value,
                                   gen |-> IF r.ext = <<>> THEN "not called" ELSE gen])]
    /\ req' = [req EXCEPT ![t] = "quality"]
    /\ UNCHANGED <<hostVars, storeVars, openConns, lastOp, query, chunks_relevantes,
                   evaluacion_calidad, resultado, response>>

\* evaluacion_calidad = self.paso_3_quality_agent(query, respuesta_llm), and
\* the result dict is built and returned
ThreadPaso3(t) ==
    /\ req[t] = "quality"
    /\ \E reply \in ThreadReplies :
        LET r == paso_3_quality_agent(logger, Local(query, t), Local(respuesta_llm, t), reply) IN
        /\ ~r.raised
        /\ evaluacion_calidad' = [evaluacion_calidad EXCEPT ![t] = r.value]
        /\ calls' = [calls EXCEPT ![t] =
                        Append(@, [stage |-> "paso_3_quality_agent", q |-> Local(query, t),
                                   arg |-> Local(respuesta_llm, t), ret |-> r.value,
                                   reply |-> reply])]
        /\ resultado' = [resultado EXCEPT ![t] =
                            resultado_final(Local(query, t), Local(chunks_relevantes, t),
                                            Local(respuesta_llm, t), r.value)]
    /\ req' = [req EXCEPT ![t] = "return"]
    /\ UNCHANGED <<hostVars, storeVars, openConns, lastOp, query, chunks_relevantes,
                   respuesta_llm, response>>

NextThreads ==
    \E t \in Threads :
        \/ ThreadBegin(t)
        \/ ThreadPaso1(t)
        \/ ThreadPaso2(t)
        \/ ThreadPaso3(t)

SpecThreads == InitThreads /\ [][NextThreads]_vars

\* =================================================================== claims
StatKeys == {"total_chunks", "titulos_unicos", "promedio_caracteres", "ultimo_ingreso"}
ResultKeys == {"query", "chunks_recuperados", "respuesta_llm", "evaluacion_calidad",
               "timestamp", "fuente"}
AnswerKeys == {"respuesta", "contexto_usado", "confianza", "fuentes"}

\* "1" .. "10" written out
ScoreStrings == {<<"1">>, <<"2">>, <<"3">>, <<"4">>, <<"5">>, <<"6">>, <<"7">>,
                 <<"8">>, <<"9">>, <<"1", "0">>}
DecimalOf == <<<<"1">>, <<"2">>, <<"3">>, <<"4">>, <<"5">>, <<"6">>, <<"7">>,
               <<"8">>, <<"9">>, <<"1", "0">>>>

\* the stage calls made so far by the chat request in progress
Made(k) == Len(calls) >= k

\* C1: when the constructor has finished, the pipeline is Failed whenever the
\* health check reported conexion_ok = false, or the statistics call raised,
\* or the statistics gave total_chunks = 0 (also by giving no statistics);
\* it is Ready whenever conexion_ok = true and total_chunks > 0; and a Ready
\* pipeline was built over a store that really holds rows.
C1_ConstructionGate ==
    boot = "init_end" =>
        LET ok == salud_bd.value.conexion_ok
            total == DictGet(stats.value, "total_chunks", 0)
        IN /\ (~ok => pipeline = "Failed")
           /\ (stats.raised \/ total = 0 => pipeline = "Failed")
           /\ (ok /\ ~stats.raised /\ total > 0 => pipeline = "Ready")
           /\ (pipeline = "Ready" => corpus > 0)

\* the store answered the health check and then reported an empty corpus
C1_Witness ==
    /\ boot = "init_end"
    /\ pipeline = "Failed"
    /\ salud_bd.value.conexion_ok
    /\ ~stats.raised
    /\ DictGet(stats.value, "total_chunks", 1) = 0

C3_StageOrder ==
    /\ req = "rag" => calls = <<>>
    /\ req = "llm" => Len(calls) = 1
    /\ req = "quality" => Len(calls) = 2
    /\ req = "return" => Len(calls) = 3
    /\ Made(1) => calls[1].stage = "paso_1_rag" /\ calls[1].arg = query
    /\ Made(2) => calls[2].stage = "paso_2_llm" /\ calls[2].arg = calls[1].ret
    /\ Made(3) => calls[3].stage = "paso_3_quality_agent" /\ calls[3].arg = calls[2].ret
    /\ req = "return" =>
          /\ resultado.chunks_recuperados = calls[1].ret
          /\ resultado.respuesta_llm = calls[2].ret
          /\ resultado.evaluacion_calidad = calls[3].ret

\* a request returned a result with retrieved chunks
C3_Witness ==
    /\ req = "return"
    /\ resultado.chunks_recuperados # <<>>
    /\ resultado.respuesta_llm.fuentes # <<>>

\* C4: generation called with no chunks returns the fixed apology text with
\* confidence 0.0, no sources and no context, and calls no language model.
C4_EmptyChunksFallback ==
    Made(2) /\ calls[2].arg = <<>> =>
        /\ calls[2].ret.respuesta = FallbackText
        /\ calls[2].ret.confianza[1] = 0
        /\ calls[2].ret.fuentes = <<>>
        /\ calls[2].ret.contexto_usado = <<>>
        /\ calls[2].ext = <<>>

\* generation has just returned for an empty chunk list
C4_Witness ==
    /\ req = "quality"
    /\ calls[2].arg = <<>>

\* C5: with at least one chunk and a model call that did not fail, the
\* confidence is the mean of the chunks' similarities, sources has one entry
\* per chunk carrying that chunk's chunk_id, title, similarity and
\* subchunk_index, and contexto_usado has one block per chunk, the i-th
\* block numbered i and built from the i-th chunk.
C5_MeanConfidenceAndSources ==
    Made(2) /\ calls[2].arg # <<>> /\ calls[2].gen \in {"text", "none"} =>
        LET chunks == calls[2].arg
            ans == calls[2].ret
            n == Len(chunks)
        IN /\ ans.confianza[2] > 0
           /\ ans.confianza[1] * n = SumSeq([i \in 1..n |-> chunks[i].similitud]) * ans.confianza[2]
           /\ Len(ans.fuentes) = n
           /\ \A i \in 1..n :
                 /\ ans.fuentes[i].chunk_id = chunks[i].chunk_id
                 /\ ans.fuentes[i].titulo = chunks[i].titulo
                 /\ ans.fuentes[i].similitud = chunks[i].similitud
                 /\ ans.fuentes[i].subchunk = chunks[i].subchunk
           /\ Len(ans.contexto_usado) = n
           /\ \A i \in 1..n :
                 /\ ans.contexto_usado[i][2] = i
                 /\ ans.contexto_usado[i][4] = chunks[i].titulo
                 /\ ans.contexto_usado[i][Len(ans.contexto_usado[i])] = chunks[i].cont

\* generation answered from two chunks of different similarity
C5_Witness ==
    /\ req = "quality"
    /\ Len(calls[2].arg) = 2
    /\ calls[2].arg[1].similitud # calls[2].arg[2].similitud
    /\ calls[2].gen = "text"

\* C6: when the generation model call fails for a non-empty chunk list, the
\* stage returns normally with the error text, confidence 0.0, no sources
\* and no context.
C6_GenerationFailure ==
    /\ Made(2) /\ calls[2].arg # <<>> /\ calls[2].gen = "raise" =>
          /\ calls[2].ret.respuesta = ErrorText("llm failed")
          /\ calls[2].ret.confianza[1] = 0
          /\ calls[2].ret.fuentes = <<>>
          /\ calls[2].ret.contexto_usado = <<>>
    /\ req = "llm" => response.status # 500
    /\ response.status = 500 => response.endpoint # "chat"

\* the model call failed with chunks in hand
C6_Witness ==
    /\ req = "quality"
    /\ calls[2].arg # <<>>
    /\ calls[2].gen = "raise"

\* C7: the evaluation stage returns one of "1".."10": the decimal string of n
\* when the evaluator's reply parses, as Python's int() parses, to an n in
\* 1..10, and "5" when the reply does not parse, is out of range, is missing
\* or the call raised; it never raises.
C7_ScoreOrDefault ==
    /\ Made(3) =>
          LET reply == calls[3].reply
              parsed == ParseInt(reply.text)
              inRange == reply.kind = "content" /\ parsed.ok /\ parsed.n \in 1..10
          IN /\ calls[3].ret \in ScoreStrings
             /\ inRange => calls[3].ret = DecimalOf[parsed.n]
             /\ ~inRange => calls[3].ret = <<"5">>
    /\ ~(response.endpoint = "chat" /\ response.status = 500)

\* the evaluator replied with an integer outside 1..10
C7_Witness ==
    /\ req = "return"
    /\ calls[3].reply.kind = "content"
    /\ ParseInt(calls[3].reply.text).ok
    /\ ParseInt(calls[3].reply.text).n > 10
    /\ calls[3].ret = <<"5">>

\* C8: the health check never raises; when connect() fails all four booleans
\* are false and an error string is present; conexion_ok is true only when
\* connect() and the three probes all succeeded.
C8_HealthCheck ==
    lastOp.op = "verificar_salud_bd" =>
        LET h == lastOp.r.value IN
        /\ ~lastOp.r.raised
        /\ ~lastOp.up =>
              /\ ~h.pgvector_instalado /\ ~h.tabla_existe
              /\ ~h.indice_vectorial /\ ~h.conexion_ok
              /\ "error" \in DOMAIN h
              /\ h.error # ""
        /\ h.conexion_ok => lastOp.up /\ lastOp.failAt = 0
        /\ lastOp.up /\ lastOp.failAt = 0 => h.conexion_ok /\ "error" \notin DOMAIN h

\* the health endpoint ran against an unreachable store
C8_Witness ==
    /\ boot = "serving"
    /\ lastOp.op = "verificar_salud_bd"
    /\ ~lastOp.up
    /\ response.endpoint = "health"

\* C9: obtener_estadisticas_bd, called from the constructor or from the stats
\* endpoint, gives the complete four-key mapping or the empty mapping and
\* does not raise.
C9_StatsNeverRaise ==
    lastOp.op = "obtener_estadisticas_bd" =>
        /\ ~lastOp.r.raised
        /\ DOMAIN lastOp.r.value = StatKeys \/ lastOp.r.value = EmptyDict

\* C10: once no accessor operation is in progress, every connection an
\* accessor opened has been closed.
C10_NoOpenConnections ==
    openConns = 0

\* C11: whenever the external embedding call fails, generar_embedding_query,
\* as buscar_chunks_similares invokes it, returns the empty vector and does
\* not raise.
C11_EmbeddingFailureCaught ==
    Made(1) /\ calls[1].emb.called /\ ~calls[1].embedOk =>
        /\ ~calls[1].emb.raised
        /\ calls[1].emb.value = <<>>

C13_NearestNeighbours ==
    req = "llm" /\ calls[1].store = "ok" =>
        LET ret == calls[1].ret
            q == calls[1].emb.value
            m == Len(ret)
            d == [i \in 1..corpus |-> CosDistance(PassageEmbedding(i), q)]
            ids == {ret[i].chunk_id : i \in 1..m}
        IN /\ m = IF TopK < corpus THEN TopK ELSE corpus
           /\ ids \subseteq 1..corpus
           /\ Cardinality(ids) = m
           /\ \A i \in 1..m : \A o \in (1..corpus) \ ids : d[ret[i].chunk_id] <= d[o]
           /\ \A i \in 1..m : ret[i].similitud = Scale - d[ret[i].chunk_id]
           /\ \A i, j \in 1..m : i < j =>
                  /\ d[ret[i].chunk_id] <= d[ret[j].chunk_id]
                  /\ ret[i].similitud >= ret[j].similitud
           /\ \A i \in 1..m : ret[i].titulo = PassageTitle(ret[i].chunk_id)

\* the store holds more passages than top_k and the query came back with
\* top_k chunks of which the first is closer than the last
C13_Witness ==
    /\ req = "llm"
    /\ calls[1].store = "ok"
    /\ corpus > TopK
    /\ Len(calls[1].ret) = TopK
    /\ calls[1].ret[1].similitud > calls[1].ret[TopK].similitud

\* a query matches the corpus when some stored passage has a positive cosine
\* similarity to the query's embedding
CorpusMatch(q, n) == \E i \in 1..n : Cosine(PassageEmbedding(i), Embed(q)) > 0

\* C14: for a non-empty query that matches no stored passage, retrieval
\* returns the empty list, and generation then returns the fixed fallback
\* text with confidence 0.0 and no sources.
C14_NonMatchingQueryEmpty ==
    Made(1) /\ calls[1].arg # <<>> /\ ~CorpusMatch(calls[1].arg, corpus) =>
        /\ calls[1].ret = <<>>
        /\ Made(2) =>
              /\ calls[2].ret.respuesta = FallbackText
              /\ calls[2].ret.confianza[1] = 0
              /\ calls[2].ret.fuentes = <<>>

\* what procesar_consulta_completa returns for query q when it runs alone
\* and the external calls answer as recorded in the stage calls c
Alone(q, c) ==
    LET up == c[1].store # "connect failed"
        failAt == IF c[1].store = "query failed" THEN 1 ELSE 0
        r1 == paso_1_rag(AppLogger, q, TopK, c[1].embedOk, up, failAt, c[1].rows)
        r2 == paso_2_llm(AppLogger, q, r1.value, c[2].gen)
        r3 == paso_3_quality_agent(AppLogger, q, r2.value, c[3].reply)
    IN resultado_final(q, r1.value, r2.value, r3.value)

\* C15: two invocations of procesar_consulta_completa on one pipeline do not
\* interfere under any interleaving: the shared pipeline object is left as
\* it was, every stage of an invocation is given that invocation's own
\* query, and the result of each invocation carries its own query and is the
\* result it would give alone against the same external responses.
C15_NoInterference ==
    /\ pipeline = "Ready"
    /\ logger = AppLogger
    /\ \A t \in Threads :
          /\ \A k \in 1..Len(calls[t]) : calls[t][k].q = query[t]
          /\ req[t] = "return" =>
                /\ resultado[t].query = query[t]
                /\ resultado[t] = Alone(query[t], calls[t])

\* both invocations are in progress at once, with different queries and each
\* holding the chunks retrieved for it
C15_Witness ==
    /\ req[1] = "quality"
    /\ req[2] = "llm"
    /\ query[1] # query[2]
    /\ chunks_relevantes[1] # <<>>
    /\ chunks_relevantes[2] # <<>>

\* C16: while a chat request is blocked in an external call of one of its
\* stages, the server can take up another chat request.
C16_OtherRequestCanStart ==
    req \in {"rag", "llm", "quality"} => ENABLED ChatBegin

\* C17: with the store unreachable or empty at process start the process
\* does not crash: start-up reaches the serving state with the pipeline not
\* Ready, and every chat request is then answered with the degraded 503
\* response (success false, score "5", 0 chunks) without running a stage.
C17_DegradedNotCrashed ==
    /\ boot # "crashed"
    /\ boot = "init_end" /\ corpus = 0 => pipeline = "Failed"
    /\ response.endpoint = "chat" /\ pipeline # "Ready" =>
          /\ response.status = 503
          /\ response.body.success = FALSE
          /\ response.body.evaluacion_calidad = <<"5">>
          /\ response.body.chunks_recuperados = 0
          /\ calls = <<>>

\* C18: the chat endpoint never answers with success = true while the store
\* is unreachable, that is while the health check would report
\* conexion_ok = false.
C18_NoSuccessWhileStoreDown ==
    response.endpoint = "chat" /\ response.status = 200 /\ response.body.success =>
        storeUp

\* the chunk ids of a retrieval result, in order
ChunkIds(ret) == [i \in 1..Len(ret) |-> ret[i].chunk_id]

\* C19: over a fixed corpus, two retrievals with top_k = 4 for the same
\* query embedding that both reach the store return the same chunk ids in
\* the same order, also when stored passages are at equal distance from the
\* query.
C19_SameChunkIds ==
    /\ Len(calls[1]) >= 1 /\ Len(calls[2]) >= 1
    /\ calls[1][1].store = "ok" /\ calls[2][1].store = "ok"
    /\ Embed(calls[1][1].q) = Embed(calls[2][1].q)
    => ChunkIds(calls[1][1].ret) = ChunkIds(calls[2][1].ret)

\* text contains sub as a literal substring, letter case ignored
ContainsFold(text, sub) ==
    \E k \in 0..(Len(text) - Len(sub)) :
        \A i \in 1..Len(sub) : Lower(text[k + i]) = Lower(sub[i])

\* C20: buscar_por_titulo returns only passages whose title contains the
\* searched string as a literal substring, letter case ignored; at most
\* limit of them; in non-increasing char_count; without a similitud field;
\* and returns the empty list, without raising, when the connection or the
\* query fails.
C20_TitleSearch ==
    lastOp.op = "buscar_por_titulo" =>
        LET res == lastOp.r.value IN
        /\ ~lastOp.r.raised
        /\ \A i \in 1..Len(res) : ContainsFold(res[i].titulo, lastOp.titulo)
        /\ Len(res) <= lastOp.limit
        /\ \A i, j \in 1..Len(res) : i < j => res[i].num >= res[j].num
        /\ \A i \in 1..Len(res) : "similitud" \notin DOMAIN res[i]
        /\ ~lastOp.up \/ lastOp.failAt = 1 => res = <<>>

\* C21: every similitud retrieval returns, every similitud in the sources
\* of the answer and the confidence computed from them lie within [0, 1].
C21_SimilarityWithinUnit ==
    /\ Made(1) => \A i \in 1..Len(calls[1].ret) : calls[1].ret[i].similitud \in 0..Scale
    /\ Made(2) =>
          LET ans == calls[2].ret IN
          /\ \A i \in 1..Len(ans.fuentes) : ans.fuentes[i].similitud \in 0..Scale
          /\ 0 <= ans.confianza[1]
          /\ ans.confianza[1] <= Scale * ans.confianza[2]

\* the chat request was answered before any call of the pipeline
AnsweredAtTheDoor == response.endpoint = "chat" /\ "request" \in DOMAIN response

\* text consists of whitespace only (or is empty)
Blank(text) == \A i \in 1..Len(text) : IsSpace(text[i])

\* C22 as stated: every empty or whitespace-only chat query is rejected as a
\* caller error, HTTP 400.
C22_EmptyQueryIsCallerError ==
    AnsweredAtTheDoor /\ Blank(response.request) => response.status = 400

\* C22: on a Ready pipeline every empty or whitespace-only chat query is
\* rejected with HTTP 400 and nothing else is; with the pipeline unavailable
\* every query, blank or not, gets the 503 response; either way no stage
\* runs.  procesar_consulta_completa runs only with a non-empty query that
\* has no whitespace at either end.
C22_BlankQueryNeverReachesPipeline ==
    /\ AnsweredAtTheDoor =>
          /\ calls = <<>>
          /\ query = <<>>
          /\ pipeline = "Ready" => response.status = 400 /\ Blank(response.request)
          /\ pipeline # "Ready" => response.status = 503
    /\ req \in {"rag", "llm", "quality", "return"} =>
          /\ query # <<>>
          /\ ~IsSpace(query[1])
          /\ ~IsSpace(query[Len(query)])
    /\ Made(1) => calls[1].arg = query

\* a query of one space was rejected by the endpoint of a Ready pipeline
C22_Witness ==
    /\ AnsweredAtTheDoor
    /\ pipeline = "Ready"
    /\ response.status = 400
    /\ response.request = <<Space>>

\* how often the external call named x was made by a stage
Times(ext, x) == Cardinality({i \in 1..Len(ext) : ext[i] = x})

\* C23: no retry and no cache.  In every chat request, at whatever point of
\* the server's history it comes, retrieval calls the embedding provider
\* exactly once, opens at most one connection and runs at most one
\* nearest-neighbour query; generation calls its model exactly once when it
\* has chunks and not at all otherwise; evaluation calls its model exactly
\* once; and a failed call ends its stage's external calls.
C23_NoRetryNoCache ==
    /\ Made(1) =>
          LET e == calls[1].ext IN
          /\ Times(e, "embed") = 1
          /\ Times(e, "connect") <= 1
          /\ Times(e, "nn_query") <= 1
          /\ ~calls[1].embedOk => e = <<"embed">>
          /\ calls[1].store = "connect failed" => e = <<"embed", "connect">>
          /\ calls[1].store = "query failed" => e = <<"embed", "connect", "nn_query">>
    /\ Made(2) =>
          calls[2].ext = IF calls[2].arg = <<>> THEN <<>> ELSE <<"llm_call">>
    /\ Made(3) => calls[3].ext = <<"eval_call">>

\* a request in which the embedding call failed and the generation stage
\* therefore had nothing to send
C23_Witness ==
    /\ req = "return"
    /\ ~calls[1].embedOk
    /\ calls[1].ext = <<"embed">>
    /\ calls[3].reply.kind = "raise"

\* retrieval of an input with nothing but spaces, store reachable
BlankRetrieval(q) == buscar_chunks_similares(q, TopK, AppLogger, TRUE, TRUE, 0, <<>>)

\* C24: retrieval stops before the store when it has no embedding.  For an
\* empty or whitespace-only input the embedding provider is not called and
\* nothing else is; when the provider's call fails, it is the only external
\* call of the stage.  In both cases no connection is opened, no
\* nearest-neighbour query is run and the result is empty.
C24_NoEmbeddingNoStore ==
    /\ \A q \in Queries : Blank(q) =>
          /\ ~BlankRetrieval(q).emb.called
          /\ BlankRetrieval(q).ext = <<>>
          /\ BlankRetrieval(q).store = "skipped"
          /\ BlankRetrieval(q).leak = 0
          /\ BlankRetrieval(q).value = <<>>
    /\ Made(1) /\ (calls[1].emb.raised \/ calls[1].emb.value = <<>>) =>
          /\ calls[1].store = "skipped"
          /\ Times(calls[1].ext, "connect") = 0
          /\ Times(calls[1].ext, "nn_query") = 0
          /\ calls[1].ret = <<>>

\* the embedding call of a request failed while the store was reachable
C24_Witness ==
    /\ req = "llm"
    /\ storeUp
    /\ calls[1].emb.called
    /\ calls[1].emb.value = <<>>
    /\ calls[1].store = "skipped"

\* the request is inside procesar_consulta_completa
InProcessQuery == req \in {"rag", "llm", "quality", "return"}

\* C25: the pipeline's lifecycle.  Its state changes only from Uninitialized,
\* and only to Ready or to Failed; once the host serves, it is one of the
\* two for good.  A request is inside procesar_consulta_completa, and a stage
\* has been called, only while the pipeline is Ready, so a Failed pipeline is
\* never used and no failure of a stage moves a Ready pipeline elsewhere.
C25_Lifecycle ==
    /\ [](InProcessQuery \/ calls # <<>> => pipeline = "Ready")
    /\ [](boot = "serving" => pipeline \in {"Ready", "Failed"})
    /\ [][pipeline' # pipeline =>
             /\ pipeline = "Uninitialized"
             /\ pipeline' \in {"Ready", "Failed"}
             /\ boot \in {"init_health", "init_stats"}]_vars
    /\ [][InProcessQuery => pipeline' = "Ready"]_vars

\* a request whose retrieval lost the store and whose generation and
\* evaluation both fell back, returned by a pipeline that is still Ready
C25_Witness ==
    /\ req = "return"
    /\ pipeline = "Ready"
    /\ calls[1].store \in {"connect failed", "query failed"}
    /\ calls[3].reply.kind = "raise"

\* C26: in the result procesar_consulta_completa returns, at most TopK
\* chunks are retrieved; the answer's sources are either empty or name the
\* retrieved chunks one for one, in the same order; they are empty exactly
\* when no chunk was retrieved or the generation call failed, and then the
\* confidence is 0.0 whatever was retrieved.
C26_SourcesFollowChunks ==
    req = "return" =>
        LET chunks == resultado.chunks_recuperados
            fuentes == resultado.respuesta_llm.fuentes
        IN /\ Len(chunks) <= TopK
           /\ \/ fuentes = <<>>
              \/ /\ Len(fuentes) = Len(chunks)
                 /\ ChunkIds(fuentes) = ChunkIds(chunks)
           /\ fuentes = <<>> <=> (chunks = <<>> \/ calls[2].gen = "raise")
           /\ fuentes = <<>> => resultado.respuesta_llm.confianza = ZeroConfidence

\* TopK chunks were retrieved and the generation call failed
C26_Witness ==
    /\ req = "return"
    /\ Len(resultado.chunks_recuperados) = TopK
    /\ calls[2].gen = "raise"
    /\ resultado.respuesta_llm.fuentes = <<>>
    /\ resultado.respuesta_llm.confianza = ZeroConfidence

\* C27: the evaluation stage runs in every call of
\* procesar_consulta_completa and calls the evaluator, whatever the
\* generation stage returned: the fallback text of a request without chunks
\* and the error text of a failed generation call are handed to it like any
\* answer, and when the evaluator replies with a number from 1 to 10 that
\* number is the score, also for those texts.
C27_EvaluatorAlwaysAsked ==
    /\ req = "return" => Made(3)
    /\ Made(3) =>
          /\ calls[3].ext = <<"eval_call">>
          /\ calls[3].arg = calls[2].ret
          /\ calls[2].arg = <<>> => calls[3].arg.respuesta = FallbackText
          /\ calls[2].gen = "raise" => calls[3].arg.respuesta = ErrorText("llm failed")
          /\ \A n \in ScoreLo..ScoreHi :
                calls[3].reply.kind = "content" /\ Strip(calls[3].reply.text) = DecimalOf[n]
                    => calls[3].ret = DecimalOf[n]

\* the evaluator gave 10 to the error text of a failed generation call
C27_Witness ==
    /\ req = "return"
    /\ calls[2].gen = "raise"
    /\ calls[3].ext = <<"eval_call">>
    /\ resultado.evaluacion_calidad = <<"1", "0">>
====
